---- MODULE Spec2Model ----
(***************************************************************************)
(* Netlink attribute stream engine of libnl (libnl/attr.py):               *)
(* nla_ok / nla_next iteration, validate_nla policy checks, nla_parse      *)
(* index construction and the nla_put_u32 / nla_get_u32 builder pair over  *)
(* an nl_msg (libnl/netlink_private/types.py).                             *)
(***************************************************************************)
EXTENDS Integers, Sequences, FiniteSets

VARIABLES
    buf,      \* memory behind head: a sequence of bytes (4 per cell)
    len_,     \* nla_parse argument len_: length of the attribute stream
    maxtype,  \* nla_parse argument maxtype
    policy,   \* nla_parse argument policy (NoPolicy or a table 0..maxtype)
    tb,       \* nla_parse argument tb: index array, offsets into buf or NULL
    pc,       \* position inside nla_parse
    pos,      \* nla: offset of the attribute the cursor points at
    rem,      \* rem: bytes remaining in the stream (a c_int)
    ret,      \* value returned by nla_parse
    visited,  \* history: offsets of the attributes nla_ok let through, in order
    hiRead,   \* history: one past the highest byte offset dereferenced
    nm_nlh,   \* nl_msg.nm_nlh: None or a header with its attrs list
    call      \* the last unit call made (function, inputs, output)

vars == <<buf, len_, maxtype, policy, tb, pc, pos, rem, ret, visited, hiRead,
          nm_nlh, call>>

parseVars == <<buf, len_, maxtype, policy, tb, pc, pos, rem, ret, visited, hiRead>>

unitVars == <<nm_nlh, call>>

(***************************************************************************)
(* Bounds of the model.                                                    *)
(***************************************************************************)
MaxCells == 3

MaxAttrs == 2

(***************************************************************************)
(* Program constants.                                                      *)
(***************************************************************************)
NLA_UNSPEC == 0

NLA_U8 == 1

NLA_U16 == 2

NLA_U32 == 3

NLA_U64 == 4

NLA_STRING == 5

NLA_FLAG == 6

NLA_MSECS == 7

NLA_NESTED == 8

NLA_TYPE_MAX == NLA_NESTED

\* sizeof(struct nlattr): two 16 bit fields, nla_len then nla_type.
NLA_HDRLEN == 4

NLA_ALIGNTO == 4

\* The reserved top bit of the type tag.
NLA_F_NESTED == 32768

NLE_INVAL == 7

NLE_RANGE == 12

\* An empty index entry (memset to 0: a null pointer).
NULL == -1

\* None, and a reference to an object: nm_nlh is None or <<header>>.
None == <<>>

Some(x) == <<x>>

\* policy argument left out.
NoPolicy == <<>>

Max(a, b) == IF a >= b THEN a ELSE b

(***************************************************************************)
(* ctypes integer conversions.                                             *)
(***************************************************************************)
c_uint16(v) == v % 65536

\* A Python integer is written <<hi, lo>> for hi * 65536 + lo, 0 <= lo < 65536,
\* so that 32 bit values fit the checker's integers; c_uint32 keeps the low
\* 32 bits.
c_uint32(v) == <<v[1] % 65536, v[2]>>

NLA_ALIGN(len) == ((len + NLA_ALIGNTO - 1) \div NLA_ALIGNTO) * NLA_ALIGNTO

(***************************************************************************)
(* Views of the attribute at an offset of the buffer.                      *)
(***************************************************************************)
\* Bytes past the end of the memory read as 0; hiRead records what is read.
ByteAt(i) == IF 0 <= i /\ i < Len(buf) THEN buf[i + 1] ELSE 0

U16At(i) == ByteAt(i) + 256 * ByteAt(i + 1)

nlattr_at(p) ==
    [nla_len  |-> U16At(p),
     nla_type |-> U16At(p + 2),
     payload  |-> [i \in 1..(U16At(p) - NLA_HDRLEN) |-> ByteAt(p + NLA_HDRLEN + i - 1)]]

\* nla.nla_type.value & NLA_TYPE_MASK: the reserved top bit is masked off.
nla_type(nla) == nla.nla_type % NLA_F_NESTED

nla_data(nla) == nla.payload

\* Length of the payload: negative for a header shorter than itself.
nla_len(nla) == nla.nla_len - NLA_HDRLEN

\* Variants of nla_ok with one comparison changed.
nla_ok_strict(nla, remaining) ==
    /\ remaining >= NLA_HDRLEN
    /\ NLA_HDRLEN <= nla.nla_len
    /\ nla.nla_len < remaining

nla_ok_noupper(nla, remaining) ==
    /\ remaining >= NLA_HDRLEN
    /\ NLA_HDRLEN <= nla.nla_len

nla_ok_nolower(nla, remaining) ==
    /\ remaining >= NLA_HDRLEN
    /\ nla.nla_len <= remaining

nla_ok(nla, remaining) ==
    /\ remaining >= NLA_HDRLEN
    /\ NLA_HDRLEN <= nla.nla_len
    /\ nla.nla_len <= remaining

\* nla_next: the padded length is taken off remaining (a c_int, whose 32 bits
\* the stream lengths here stay far inside) and added to the cursor.
\* Variant that steps by the unpadded length:
nla_next_unpadded(nla, p, remaining) ==
    LET totlen == nla.nla_len
    IN  [nla |-> p + totlen, remaining |-> remaining - totlen]

nla_next(nla, p, remaining) ==
    LET totlen == NLA_ALIGN(nla.nla_len)
    IN  [nla |-> p + totlen, remaining |-> remaining - totlen]

(***************************************************************************)
(* nla_for_each_attr(nla, head, len_, rem): start at the head with len_    *)
(* bytes remaining, go on while nla_ok holds, step with nla_next.          *)
(***************************************************************************)
nla_for_each_attr_init(len) == [nla |-> 0, remaining |-> len]

nla_for_each_attr_ok(p, remaining) == nla_ok(nlattr_at(p), remaining)

nla_for_each_attr_step(p, remaining) == nla_next(nlattr_at(p), p, remaining)

(***************************************************************************)
(* Policy validation.                                                      *)
(***************************************************************************)
\* Natural minimum payload length of each kind.
nla_attr_minlen ==
    [k \in 0..NLA_TYPE_MAX |->
        CASE k = NLA_U8     -> 1
          [] k = NLA_U16    -> 2
          [] k = NLA_U32    -> 4
          [] k = NLA_U64    -> 8
          [] k = NLA_STRING -> 1
          [] OTHER          -> 0]

\* Outcome of a call: a returned value, or the BUG exception.
Returns(v) == [raised |-> FALSE, val |-> v]

RaisesBUG == [raised |-> TRUE, val |-> 0]

\* Variant of validate_nla that rejects a payload of exactly the minimum length.
validate_nla_offbyone(nla, mt, pol) ==
    LET type_ == nla_type(nla)
    IN  IF type_ < 0 \/ type_ > mt THEN Returns(0)
        ELSE
        LET pt == pol[type_]
            minlen == IF pt.minlen # 0 THEN pt.minlen
                      ELSE IF pt.type # NLA_UNSPEC THEN nla_attr_minlen[pt.type]
                      ELSE 0
        IN  IF pt.type > NLA_TYPE_MAX THEN RaisesBUG
            ELSE IF nla_len(nla) <= minlen THEN Returns(-NLE_RANGE)
            ELSE IF pt.maxlen # 0 /\ nla_len(nla) > pt.maxlen THEN Returns(-NLE_RANGE)
            ELSE IF pt.type = NLA_STRING /\ nla_data(nla)[nla_len(nla)] # 0
                 THEN Returns(-NLE_INVAL)
            ELSE Returns(0)

\* Variant of validate_nla that rejects a type above maxtype.
validate_nla_nofwd(nla, mt, pol) ==
    LET type_ == nla_type(nla)
    IN  IF type_ < 0 \/ type_ > mt THEN Returns(-NLE_INVAL)
        ELSE
        LET pt == pol[type_]
            minlen == IF pt.minlen # 0 THEN pt.minlen
                      ELSE IF pt.type # NLA_UNSPEC THEN nla_attr_minlen[pt.type]
                      ELSE 0
        IN  IF pt.type > NLA_TYPE_MAX THEN RaisesBUG
            ELSE IF nla_len(nla) < minlen THEN Returns(-NLE_RANGE)
            ELSE IF pt.maxlen # 0 /\ nla_len(nla) > pt.maxlen THEN Returns(-NLE_RANGE)
            ELSE IF pt.type = NLA_STRING /\ nla_data(nla)[nla_len(nla)] # 0
                 THEN Returns(-NLE_INVAL)
            ELSE Returns(0)

validate_nla(nla, mt, pol) ==
    LET type_ == nla_type(nla)
    IN  IF type_ < 0 \/ type_ > mt THEN Returns(0)
        ELSE
        LET pt == pol[type_]
            minlen == IF pt.minlen # 0 THEN pt.minlen
                      ELSE IF pt.type # NLA_UNSPEC THEN nla_attr_minlen[pt.type]
                      ELSE 0
        IN  IF pt.type > NLA_TYPE_MAX THEN RaisesBUG
            ELSE IF nla_len(nla) < minlen THEN Returns(-NLE_RANGE)
            ELSE IF pt.maxlen # 0 /\ nla_len(nla) > pt.maxlen THEN Returns(-NLE_RANGE)
            ELSE IF pt.type = NLA_STRING /\ nla_data(nla)[nla_len(nla)] # 0
                 THEN Returns(-NLE_INVAL)
            ELSE Returns(0)

(***************************************************************************)
(* nla_parse, one step per loop position.                                  *)
(*   "call" : entered, nothing done yet                                    *)
(*   "test" : at the loop condition (nla_for_each_attr)                    *)
(*   "body" : inside the loop body, nla_ok held for the attribute at pos   *)
(*   "done" : returned ret          "raised" : left by the BUG exception   *)
(***************************************************************************)
\* Variant of ParseBegin that leaves the index array as the caller passed it.
ParseBegin_nomemset ==
    /\ pc = "call"
    /\ tb' = tb
    /\ pos' = nla_for_each_attr_init(len_).nla
    /\ rem' = nla_for_each_attr_init(len_).remaining
    /\ pc' = "test"
    /\ UNCHANGED <<buf, len_, maxtype, policy, ret, visited, hiRead>>

\* nla = nlattr(); rem = c_int(); memset(tb, 0, ...); then the loop is entered.
ParseBegin ==
    /\ pc = "call"
    /\ tb' = [t \in 0..maxtype |-> NULL]
    /\ pos' = nla_for_each_attr_init(len_).nla
    /\ rem' = nla_for_each_attr_init(len_).remaining
    /\ pc' = "test"
    /\ UNCHANGED <<buf, len_, maxtype, policy, ret, visited, hiRead>>

\* The loop condition; when it is false the loop ends and 0 is returned.
LoopTest ==
    /\ pc = "test"
    /\ hiRead' = IF rem >= NLA_HDRLEN THEN Max(hiRead, pos + 2) ELSE hiRead
    /\ IF nla_for_each_attr_ok(pos, rem)
       THEN /\ pc' = "body"
            /\ visited' = Append(visited, pos)
            /\ ret' = ret
       ELSE /\ pc' = "done"
            /\ ret' = 0
            /\ visited' = visited
    /\ UNCHANGED <<buf, len_, maxtype, policy, tb, pos, rem>>

\* "if err < 0: return int(err)"; the variant never aborts.
ValidationFailed_never(res) == FALSE

ValidationFailed(res) == res.val < 0

\* "tb[type_] = nla"; the variant keeps the first attribute of a type.
IndexStore_firstwins(index, type_, p) ==
    IF index[type_] = NULL THEN [index EXCEPT ![type_] = p] ELSE index

IndexStore(index, type_, p) == [index EXCEPT ![type_] = p]

\* The loop body, then the step to the next attribute.
LoopBody ==
    /\ pc = "body"
    /\ LET nla   == nlattr_at(pos)
           type_ == nla_type(nla)
           nxt   == nla_for_each_attr_step(pos, rem)
           res   == validate_nla(nla, maxtype, policy)
           adv   == /\ pos' = nxt.nla
                    /\ rem' = nxt.remaining
                    /\ pc' = "test"
                    /\ ret' = ret
       IN  IF type_ > maxtype
           THEN /\ adv
                /\ tb' = tb
                /\ hiRead' = Max(hiRead, pos + NLA_HDRLEN)
           ELSE IF policy # NoPolicy /\ res.raised
           THEN /\ pc' = "raised"
                /\ hiRead' = Max(hiRead, pos + NLA_HDRLEN)
                /\ UNCHANGED <<tb, pos, rem, ret>>
           ELSE IF policy # NoPolicy /\ ValidationFailed(res)
           THEN /\ pc' = "done"
                /\ ret' = res.val
                /\ hiRead' = Max(hiRead, pos + nla.nla_len)
                /\ UNCHANGED <<tb, pos, rem>>
           ELSE /\ adv
                /\ tb' = IndexStore(tb, type_, pos)
                /\ hiRead' = Max(hiRead, pos + nla.nla_len)
    /\ UNCHANGED <<buf, len_, maxtype, policy, visited>>

(***************************************************************************)
(* Inputs of nla_parse.                                                    *)
(***************************************************************************)
\* Four-byte cells the buffers are built from: attribute headers
\* <<len lo, len hi, type lo, type hi>>, which double as payload bytes.
Cells ==
    { <<4, 0, 0, 0>>,      \* type 0, no payload
      <<4, 0, 2, 0>>,      \* type 2, no payload
      <<5, 0, 1, 0>>,      \* type 1, one payload byte, unpadded length
      <<8, 0, 0, 128>>,    \* type 0 with the nested bit, four payload bytes
      <<4, 0, 1, 0>>,      \* type 1, no payload
      <<0, 0, 0, 0>> }     \* zero bytes: a header shorter than itself

RECURSIVE Flatten(_)
Flatten(cs) == IF cs = <<>> THEN <<>> ELSE Head(cs) \o Flatten(Tail(cs))

CellSeqs == UNION { [1..n -> Cells] : n \in 0..MaxCells }

\* Stream lengths of a buffer of n cells: those that end inside the last cell.
Lengths(n) == IF n = 0 THEN {0} ELSE (4 * (n - 1) + 1)..(4 * n)

PolicyEntries ==
    [u32  |-> [type |-> NLA_U32,    minlen |-> 0, maxlen |-> 0],
     str  |-> [type |-> NLA_STRING, minlen |-> 0, maxlen |-> 0],
     bin  |-> [type |-> NLA_UNSPEC, minlen |-> 1, maxlen |-> 2],
     flag |-> [type |-> NLA_FLAG,   minlen |-> 0, maxlen |-> 0],
     bad  |-> [type |-> NLA_TYPE_MAX + 1, minlen |-> 0, maxlen |-> 0]]

PolicyRows ==
    { <<PolicyEntries.u32, PolicyEntries.str>>,
      <<PolicyEntries.flag, PolicyEntries.bin>>,
      <<PolicyEntries.bin, PolicyEntries.bad>> }

MaxTypes == {0, 1}

Policies(mt) == {NoPolicy} \cup { [t \in 0..mt |-> row[t + 1]] : row \in PolicyRows }

\* The caller's index array before the call: cleared, or holding stale entries.
StaleTbs(mt) == { [t \in 0..mt |-> NULL], [t \in 0..mt |-> 0] }

UnitIdle == [fn |-> "none"]

InitParse ==
    /\ \E cs \in CellSeqs :
          /\ buf = Flatten(cs)
          /\ len_ \in Lengths(Len(cs))
    /\ maxtype \in MaxTypes
    /\ policy \in Policies(maxtype)
    /\ tb \in StaleTbs(maxtype)
    /\ pc = "call"
    /\ pos = 0
    /\ rem = 0
    /\ ret = 0
    /\ visited = <<>>
    /\ hiRead = 0
    /\ nm_nlh = None
    /\ call = UnitIdle

NextParse == (ParseBegin \/ LoopTest \/ LoopBody) /\ UNCHANGED unitVars

SpecParse == InitParse /\ [][NextParse]_vars

\* A parse runs on; a parse that has returned or raised stays so.
FairSpecParse == SpecParse /\ WF_vars(NextParse)

(***************************************************************************)
(* nla_ok and validate_nla applied to attribute views and policies drawn   *)
(* from bounded sets.                                                      *)
(***************************************************************************)
UnitLens == 0..13

UnitRemainings == (0 - 5)..14

UnitTypes == {0, 1, 2, 1 + NLA_F_NESTED}

\* A view with the given header fields whose payload bytes all equal fill.
View(l, t, fill) ==
    [nla_len |-> l, nla_type |-> t, payload |-> [i \in 1..(l - NLA_HDRLEN) |-> fill]]

UnitViews == { View(l, t, fill) : l \in UnitLens, t \in UnitTypes, fill \in {0, 65} }

UnitEntries ==
    [type : 0..(NLA_TYPE_MAX + 1), minlen : {0, 1, 3}, maxlen : {0, 2, 4}]

CallNlaOk ==
    /\ call = UnitIdle
    /\ \E nla \in UnitViews, remaining \in UnitRemainings :
          call' = [fn |-> "nla_ok", nla |-> nla, remaining |-> remaining,
                   out |-> nla_ok(nla, remaining)]
    /\ UNCHANGED <<nm_nlh>>

CallValidate ==
    /\ call = UnitIdle
    /\ \E nla \in UnitViews, mt \in MaxTypes, e \in UnitEntries :
          LET pol == [t \in 0..mt |-> e]
          IN  call' = [fn |-> "validate_nla", nla |-> nla, maxtype |-> mt, pt |-> e,
                       out |-> validate_nla(nla, mt, pol)]
    /\ UNCHANGED <<nm_nlh>>

ParseIdle ==
    /\ buf = <<>>
    /\ len_ = 0
    /\ maxtype = 0
    /\ policy = NoPolicy
    /\ tb = [t \in 0..0 |-> NULL]
    /\ pc = "idle"
    /\ pos = 0
    /\ rem = 0
    /\ ret = 0
    /\ visited = <<>>
    /\ hiRead = 0

InitUnit == ParseIdle /\ nm_nlh = None /\ call = UnitIdle

NextUnit == (CallNlaOk \/ CallValidate) /\ UNCHANGED parseVars

SpecUnit == InitUnit /\ [][NextUnit]_vars

(***************************************************************************)
(* The attribute builder over an nl_msg.                                   *)
(***************************************************************************)
\* nlattr(nla_type=attrtype, payload=data): the type is held as a c_uint16.
nlattr(attrtype, data) == [nla_type |-> c_uint16(attrtype), payload |-> data]

\* The message's attribute list after nla_put(msg, attrtype, data).
nla_put(hdr, attrtype, data) == [hdr EXCEPT !.attrs = Append(@, nlattr(attrtype, data))]

\* Variant of nla_put_u32 that stores the value as it was given.
nla_put_u32_raw(hdr, attrtype, value) == nla_put(hdr, attrtype, value)

\* value is an int() or a c_uint32(); an int is wrapped into a c_uint32.
nla_put_u32(hdr, attrtype, value) ==
    nla_put(hdr, attrtype,
            IF value.ctype = "c_uint32" THEN value
            ELSE [ctype |-> "c_uint32", value |-> c_uint32(value.value)])

\* assert isinstance(nla.payload, c_uint32); return nla.payload.value
nla_get_u32(nla) ==
    IF nla.payload.ctype = "c_uint32"
    THEN [raised |-> FALSE, val |-> nla.payload.value]
    ELSE [raised |-> TRUE, val |-> <<0, 0>>]

PutTypes == {1, 3, 1 + NLA_F_NESTED}

\* Python integers handed to nla_put_u32: inside and outside 32 bits.
PutInts == { <<0, 7>>, <<1, 7>>, <<65535, 65535>>, <<65536, 7>>, <<0 - 1, 65535>> }

PutValues ==
    { [ctype |-> "int", value |-> v] : v \in PutInts }
    \cup { [ctype |-> "c_uint32", value |-> v] : v \in { <<0, 7>>, <<65535, 65535>> } }

\* nl_msg(): nm_nlh is None until the message is given a header.
nl_msg_init == None

\* The message allocation path gives the message a header with no attributes.
MsgAlloc ==
    /\ nm_nlh = None
    /\ nm_nlh' = Some([attrs |-> <<>>])
    /\ call' = [fn |-> "nlmsg_alloc"]

\* nla_put_u32(msg, attrtype, value); msg.nm_nlh.attrs of None raises.
PutU32 ==
    \E attrtype \in PutTypes, value \in PutValues :
        IF nm_nlh = None
        THEN /\ call' = [fn |-> "nla_put_u32", attrtype |-> attrtype, value |-> value,
                         raised |-> TRUE]
             /\ nm_nlh' = nm_nlh
        ELSE /\ Len(nm_nlh[1].attrs) < MaxAttrs
             /\ nm_nlh' = Some(nla_put_u32(nm_nlh[1], attrtype, value))
             /\ call' = [fn |-> "nla_put_u32", attrtype |-> attrtype, value |-> value,
                         raised |-> FALSE]

\* nla_put(msg, attrtype, data) with a payload that is no c_uint32.
PutU16 ==
    /\ nm_nlh # None
    /\ Len(nm_nlh[1].attrs) < MaxAttrs
    /\ \E attrtype \in PutTypes :
          /\ nm_nlh' = Some(nla_put(nm_nlh[1], attrtype,
                                    [ctype |-> "c_uint16", value |-> <<0, 7>>]))
          /\ call' = [fn |-> "nla_put", attrtype |-> attrtype]

\* nla_get_u32 on an attribute of the message.
GetU32 ==
    /\ nm_nlh # None
    /\ \E i \in 1..Len(nm_nlh[1].attrs) :
          call' = [fn |-> "nla_get_u32", index |-> i,
                   out |-> nla_get_u32(nm_nlh[1].attrs[i])]
    /\ UNCHANGED <<nm_nlh>>

InitMsg == ParseIdle /\ nm_nlh = nl_msg_init /\ call = UnitIdle

NextMsg == (MsgAlloc \/ PutU32 \/ PutU16 \/ GetU32) /\ UNCHANGED parseVars

SpecMsg == InitMsg /\ [][NextMsg]_vars

(***************************************************************************)
(* Properties.                                                             *)
(***************************************************************************)
\* Header fields of the attribute at offset p, read from the bytes.
LenAt(p) == U16At(p)

TypeAt(p) == U16At(p + 2) % NLA_F_NESTED

\* The least multiple of four that is at least l.
AlignUp4(l) == CHOOSE m \in l..(l + 3) : m % 4 = 0

Last(seq) == seq[Len(seq)]

\* The index a single pass over the attributes at offsets recs leaves:
\* per type the last attribute of that type, NULL when there is none.
LastWins(recs) ==
    [t \in 0..maxtype |->
        LET S == { i \in 1..Len(recs) : TypeAt(recs[i]) = t }
        IN  IF S = {} THEN NULL
            ELSE recs[CHOOSE i \in S : \A j \in S : j <= i]]

\* The attribute at offset p is let into the index: no policy is given, or
\* its type is above maxtype, or it validates.
Passes(p) ==
    \/ policy = NoPolicy
    \/ TypeAt(p) > maxtype
    \/ LET res == validate_nla(nlattr_at(p), maxtype, policy)
       IN  ~res.raised /\ res.val >= 0

\* C1: nla_ok returns true exactly when remaining is at least the header
\* size and the declared nla_len lies between the header size and remaining,
\* both ends included; it is never true for an nla_len above remaining.
C1_NlaOkIffFits ==
    call.fn = "nla_ok" =>
        /\ call.out <=> /\ call.remaining >= NLA_HDRLEN
                        /\ call.nla.nla_len >= NLA_HDRLEN
                        /\ call.nla.nla_len <= call.remaining
        /\ call.out => call.nla.nla_len <= call.remaining

C1_Witness ==
    /\ call.fn = "nla_ok"
    /\ call.out
    /\ call.nla.nla_len = call.remaining
    /\ call.nla.nla_len > NLA_HDRLEN

\* C2 as stated: in every state of the parse loop remaining is >= 0, every
\* byte dereferenced lies inside buffer[0..len_), and only attributes that
\* passed nla_ok are dereferenced or stored.
C2_Original ==
    pc # "call" =>
        /\ rem >= 0
        /\ hiRead <= len_
        /\ pc = "body" => pos + NLA_HDRLEN <= len_ /\ pos + LenAt(pos) <= len_
        /\ \A t \in 0..maxtype :
              tb[t] # NULL => \E i \in 1..Len(visited) : visited[i] = tb[t]

\* C2 amended: remaining is >= 0 (indeed >= the header size) whenever an
\* attribute is dereferenced; after the last advance it may be negative, down
\* to -3, and then nothing more is dereferenced.  Every byte dereferenced lies
\* inside buffer[0..len_), cursor + remaining stays len_, and only attributes
\* that passed nla_ok are dereferenced or stored.
C2_BoundsAmended ==
    pc # "call" =>
        /\ rem > 0 - NLA_ALIGNTO
        /\ pos + rem = len_
        /\ hiRead <= len_
        /\ pc \in {"body", "raised"} \/ (pc = "done" /\ ret < 0) =>
              /\ rem >= NLA_HDRLEN
              /\ pos + NLA_HDRLEN <= len_
              /\ LenAt(pos) >= NLA_HDRLEN
              /\ pos + LenAt(pos) <= len_
              /\ visited # <<>> /\ Last(visited) = pos
        /\ rem < 0 => pc \in {"test", "done"}
        /\ \A i \in 1..Len(visited) :
              LenAt(visited[i]) >= NLA_HDRLEN /\ visited[i] + LenAt(visited[i]) <= len_
        /\ \A t \in 0..maxtype :
              tb[t] # NULL => \E i \in 1..Len(visited) : visited[i] = tb[t]

C2_Witness ==
    /\ pc = "done"
    /\ rem < 0
    /\ visited # <<>>
    /\ hiRead = len_

\* C3 as stated: a failed parse stops at the first attribute that fails its
\* policy, returns that attribute's negative code, and leaves no index entry
\* of an earlier attribute visible to the caller.
C3_Original ==
    pc = "done" /\ ret < 0 =>
        /\ visited # <<>>
        /\ ret = validate_nla(nlattr_at(Last(visited)), maxtype, policy).val
        /\ \A i \in 1..(Len(visited) - 1) : Passes(visited[i])
        /\ \A t \in 0..maxtype : tb[t] = NULL

\* C3 amended: a failed parse stops at the first attribute that fails its
\* policy, returns that attribute's negative code and processes no later
\* attribute; the index array, which the caller owns, keeps the entries
\* stored from the attributes before the failing one.
C3_AbortAmended ==
    /\ \A i \in 1..(Len(visited) - 1) : Passes(visited[i])
    /\ pc = "test" \/ (pc = "done" /\ ret = 0) =>
          \A i \in 1..Len(visited) : Passes(visited[i])
    /\ pc = "done" /\ ret < 0 =>
          /\ policy # NoPolicy
          /\ visited # <<>>
          /\ pos = Last(visited)
          /\ TypeAt(pos) <= maxtype
          /\ ret = validate_nla(nlattr_at(pos), maxtype, policy).val
          /\ ret \in {0 - NLE_RANGE, 0 - NLE_INVAL}
          /\ tb = LastWins(SubSeq(visited, 1, Len(visited) - 1))

C3_Witness ==
    /\ pc = "done"
    /\ ret < 0
    /\ Len(visited) >= 2
    /\ \E t \in 0..maxtype : tb[t] # NULL

\* C4: an attribute whose masked type is above maxtype never makes the
\* parse fail, is never stored in the index, and the cursor moves on past it
\* so that later attributes are still iterated; validate_nla returns success
\* for it.
C4_ForwardCompat ==
    /\ \A i \in 1..Len(visited) :
          TypeAt(visited[i]) > maxtype =>
              /\ policy # NoPolicy =>
                    validate_nla(nlattr_at(visited[i]), maxtype, policy) = Returns(0)
              /\ \/ i < Len(visited)
                 \/ pc = "body" /\ pos = visited[i]
                 \/ /\ pc \in {"test", "done"}
                    /\ pos = visited[i] + AlignUp4(LenAt(visited[i]))
                    /\ pc = "done" => ret = 0
    /\ pc # "call" =>
          \A t \in 0..maxtype : tb[t] # NULL => TypeAt(tb[t]) = t

C4_Witness ==
    /\ pc = "done"
    /\ ret = 0
    /\ policy # NoPolicy
    /\ \E i \in 1..Len(visited), j \in 1..Len(visited) :
          /\ i < j
          /\ TypeAt(visited[i]) > maxtype
          /\ TypeAt(visited[j]) <= maxtype
          /\ tb[TypeAt(visited[j])] = visited[j]

\* C5: after a successful parse (and at every loop test) tb[t] is empty iff
\* no attribute of masked type t was iterated, and otherwise refers to the
\* last such attribute in stream order; entries of other types are those of
\* their own last attribute.
C5_LastWins ==
    pc = "test" \/ (pc = "done" /\ ret = 0) =>
        \A t \in 0..maxtype :
            LET S == { i \in 1..Len(visited) : TypeAt(visited[i]) = t }
            IN  /\ tb[t] = NULL <=> S = {}
                /\ S # {} => \E i \in S : tb[t] = visited[i] /\ \A j \in S : j <= i

C5_Witness ==
    /\ pc = "done"
    /\ ret = 0
    /\ \E i \in 1..Len(visited), j \in 1..Len(visited), k \in 1..Len(visited) :
          /\ i < j
          /\ TypeAt(visited[i]) = TypeAt(visited[j])
          /\ TypeAt(visited[i]) <= maxtype
          /\ tb[TypeAt(visited[j])] = visited[j]
          /\ TypeAt(visited[k]) # TypeAt(visited[i])
          /\ TypeAt(visited[k]) <= maxtype
          /\ tb[TypeAt(visited[k])] = visited[k]

\* The kinds whose natural minimum the policy rules name.
NaturalMin(kind) ==
    CASE kind = NLA_UNSPEC -> 0
      [] kind = NLA_FLAG   -> 0
      [] kind = NLA_U8     -> 1
      [] kind = NLA_U16    -> 2
      [] kind = NLA_U32    -> 4
      [] kind = NLA_U64    -> 8
      [] kind = NLA_STRING -> 1

NamedKinds == {NLA_UNSPEC, NLA_FLAG, NLA_U8, NLA_U16, NLA_U32, NLA_U64, NLA_STRING}

\* C6: for an attribute of type <= maxtype the effective minimum is the
\* policy's minlen if set, else the kind's natural minimum; validate_nla
\* returns -NLE_RANGE when the payload is shorter, and returns 0 for a
\* non-string kind whose payload is exactly the minimum and not above a
\* declared maximum.
C6_MinLen ==
    /\ call.fn = "validate_nla"
    /\ call.nla.nla_type % NLA_F_NESTED <= call.maxtype
    /\ call.pt.type <= NLA_TYPE_MAX
    /\ call.pt.minlen # 0 \/ call.pt.type \in NamedKinds
    =>
    LET plen == call.nla.nla_len - NLA_HDRLEN
        eff  == IF call.pt.minlen # 0 THEN call.pt.minlen ELSE NaturalMin(call.pt.type)
    IN  /\ plen < eff => call.out = Returns(0 - NLE_RANGE)
        /\ /\ plen = eff
           /\ call.pt.type # NLA_STRING
           /\ call.pt.maxlen = 0 \/ plen <= call.pt.maxlen
           => call.out = Returns(0)

C6_Witness ==
    /\ call.fn = "validate_nla"
    /\ call.nla.nla_type % NLA_F_NESTED <= call.maxtype
    /\ call.pt = [type |-> NLA_U32, minlen |-> 0, maxlen |-> 4]
    /\ call.nla.nla_len = NLA_HDRLEN + 4
    /\ call.out = Returns(0)

\* C7: after nla_put_u32(msg, type, v) with v a 32 bit unsigned value, given
\* as an int or as a c_uint32, nla_get_u32 of the appended attribute is v and
\* its nla_type is the type with the nested bit masked off.
C7_RoundTripU32 ==
    /\ call.fn = "nla_put_u32"
    /\ ~call.raised
    /\ call.value.value[1] \in 0..65535
    =>
    LET rec == Last(nm_nlh[1].attrs)
    IN  /\ nla_get_u32(rec) = [raised |-> FALSE, val |-> call.value.value]
        /\ nla_type(rec) = IF call.attrtype >= NLA_F_NESTED
                           THEN call.attrtype - NLA_F_NESTED
                           ELSE call.attrtype

C7_Witness ==
    /\ call.fn = "nla_put_u32"
    /\ ~call.raised
    /\ call.value = [ctype |-> "int", value |-> <<65535, 65535>>]
    /\ call.attrtype = 1 + NLA_F_NESTED
    /\ Len(nm_nlh[1].attrs) = 2
    /\ nla_get_u32(Last(nm_nlh[1].attrs)).val = <<65535, 65535>>

\* C8: for an attribute that passed nla_ok, the advance moves the cursor by
\* exactly the length rounded up to a multiple of four and lowers remaining
\* by the same amount: cursor + remaining is unchanged and the step exceeds
\* nla_len by 0 to 3 bytes.
C8_AdvanceAligned ==
    [][pc = "body" /\ pc' = "test" =>
          LET step == AlignUp4(LenAt(pos))
          IN  /\ pos' = pos + step
              /\ rem' = rem - step
              /\ pos' + rem' = pos + rem
              /\ step - LenAt(pos) \in 0..3]_vars

C8_Witness ==
    /\ pc = "test"
    /\ visited # <<>>
    /\ LenAt(Last(visited)) % 4 # 0
    /\ pos = Last(visited) + AlignUp4(LenAt(Last(visited)))
    /\ rem = len_ - pos

\* C9: every parse ends; each iteration lowers remaining by at least the
\* header size, so there are at most len_ / header size iterations.
C9_Terminates ==
    /\ <>(pc \in {"done", "raised"})
    /\ [][pc = "body" /\ pc' = "test" => rem' <= rem - NLA_HDRLEN]_vars
    /\ [](Len(visited) * NLA_HDRLEN <= len_)

C9_Witness ==
    /\ pc = "done"
    /\ Len(visited) >= 2
    /\ Len(visited) * NLA_HDRLEN = len_

\* C10: the loop goes on only while nla_ok holds and a parse that ends
\* because nla_ok is false returns 0; a stream shorter than a header gives
\* success with every entry empty, and trailing bytes shorter than a header
\* leave the index built so far as it is.
C10_CleanEnd ==
    LET ok == /\ rem >= NLA_HDRLEN
              /\ LenAt(pos) >= NLA_HDRLEN
              /\ LenAt(pos) <= rem
    IN  /\ pc = "body" => ok
        /\ pc = "done" => (ret = 0 <=> ~ok)
        /\ pc = "done" /\ len_ < NLA_HDRLEN =>
              ret = 0 /\ \A t \in 0..maxtype : tb[t] = NULL
        /\ pc = "done" /\ ret = 0 /\ rem > 0 /\ rem < NLA_HDRLEN =>
              tb = LastWins(visited)

C10_Witness ==
    /\ pc = "done"
    /\ len_ = 1
    /\ ret = 0
    /\ \A t \in 0..maxtype : tb[t] = NULL

====
